---- MODULE Spec2Model ----
(***************************************************************************)
(* Interview-candidate lifecycle of payday-server: the service             *)
(* (InterviewCandidateService), the repository it calls                    *)
(* (InterviewCandidateRepository over BaseRepository), the document        *)
(* methods and the pre('save') hook of the InterviewCandidate schema, and  *)
(* the application service that starts the automatic candidate creation.   *)
(*                                                                         *)
(* A JavaScript value that may be missing is modelled as follows: a        *)
(* string field is a string, with Undef for undefined and Null for null;   *)
(* a number, a date or an array is wrapped: <<>> is undefined, <<v>> is    *)
(* the value v. Dates are integers (days), "now" is the variable now.      *)
(***************************************************************************)
EXTENDS Integers, Sequences, FiniteSets, TLC

\* ------------------------------------------------------------------ bounds
MaxApps == 1
MaxCandidates == 2
MaxCalls == 2
MaxTimeline == 4
MaxInterviews == 1
MaxComms == 1
MaxStageTimeline == 6
MaxQueryInterviews == 2
MaxJobs == 2
MaxWrites == 2
MaxNow == 2

\* ------------------------------------------------------- values and inputs
Undef == "<undefined>"
Null == "<null>"
None == <<>>
Some(v) == <<v>>

Users == {"u1"}
AppIds == 1..MaxApps
CandIds == 1..MaxCandidates
Procs == 1..MaxCalls

\* userId as the callers of the service pass it: a user id, or undefined
ActorInputs == Users \cup {Undef}

VARIABLES
  applications,   \* ids of the stored CareerApplication documents
  nextApp,        \* number of applications created so far (ids are never reused)
  candidates,     \* the InterviewCandidate collection in insertion order; id = index
  calls,          \* createFromApplication calls in flight, one per Procs slot
  now,            \* the time of the calls (new Date()), in days
  last,           \* outcome of the operation that completed last
  response,       \* the HTTP response sent last: route, status code, message, handler reached
  mail,           \* EmailService: the transporter and the emails in flight, sent and failed
  jobs,           \* the Job collection in insertion order: <<doc>>, or <<>> once deleted; id = index
  writers         \* updateStage / makeDecision calls between their findById and their save(), and the order of their reads and writes

vars == <<applications, nextApp, candidates, calls, now, last, response, mail, jobs, writers>>

\* --------------------------------------------------- JavaScript truthiness
\* !x for a string-or-undefined value
TruthyStr(s) == s # Undef /\ s # Null /\ s # ""
\* !x for a number-or-undefined value: undefined and 0 are falsy
TruthyNum(n) == n # None /\ n[1] # 0
\* !x for an array-or-undefined value: every array is truthy, also []
TruthyArr(a) == a # None

NoError == ""

\* -------------------------------------------------- InterviewCandidate schema
Stages ==
  {"screening", "phone-interview", "technical-interview", "final-interview",
   "offer", "rejected", "hired"}
InterviewStages ==
  {"screening", "phone-interview", "technical-interview", "final-interview"}
InterviewStatuses == {"scheduled", "completed", "cancelled", "rescheduled"}
DecisionStatuses == {"pending", "approved", "rejected", "on-hold"}
OfferStatuses == {"pending", "accepted", "declined", "expired"}
CommunicationTypes == {"email", "phone", "in-person", "video"}

\* A path of type ObjectId takes a user id, or no value; any other string
\* (such as 'system') is a cast error that validation reports.
ObjectIdCastable(v) == v \in Users \cup {Undef, Null}

\* new InterviewCandidate(data): data plus the schema defaults
NewDocument(data) ==
  [careerApplication |-> data.careerApplication,
   currentStage |-> data.currentStage,
   interviews |-> <<>>,
   overallRating |-> None,
   skillsAssessment |->
     [technical |-> None, communication |-> None,
      problemSolving |-> None, culturalFit |-> None],
   decision |-> [status |-> "pending", madeBy |-> Undef, madeAt |-> None, notes |-> Undef],
   offer |-> [salary |-> None, currency |-> "USD", startDate |-> None,
              benefits |-> <<>>, status |-> "pending", validUntil |-> None],
   communications |-> <<>>,
   timeline |-> data.timeline]

RatingInRange(r) == r = None \/ (r[1] >= 1 /\ r[1] <= 5)

\* document validation, run by save() before the pre('save') hook
ValidDocument(doc) ==
  /\ doc.currentStage \in Stages
  /\ \A i \in DOMAIN doc.interviews :
       /\ doc.interviews[i].stage \in InterviewStages
       /\ doc.interviews[i].scheduledAt # None
       /\ doc.interviews[i].status \in InterviewStatuses
       /\ RatingInRange(doc.interviews[i].rating)
       /\ \A k \in DOMAIN doc.interviews[i].interviewers :
            doc.interviews[i].interviewers[k] \in Users
  /\ RatingInRange(doc.overallRating)
  /\ doc.decision.status \in DecisionStatuses
  /\ ObjectIdCastable(doc.decision.madeBy)
  /\ doc.offer.status \in OfferStatuses
  /\ \A i \in DOMAIN doc.communications :
       /\ doc.communications[i].type \in CommunicationTypes
       /\ ObjectIdCastable(doc.communications[i].initiatedBy)
  /\ \A i \in DOMAIN doc.timeline :
       /\ doc.timeline[i].action # Undef
       /\ ObjectIdCastable(doc.timeline[i].performedBy)

TimelineEntry(action, performedBy, details) ==
  [action |-> action, performedBy |-> performedBy, details |-> details]

\* this.timeline.push(entry)
\* a write that replaces the timeline with the new entry (not what $push does)
TimelineReplace(timeline, entry) == <<entry>>
TimelinePush(timeline, entry) == Append(timeline, entry)

\* a hook that does not look at isModified('currentStage')
preSaveAlways(doc, stageModified) ==
  [doc EXCEPT !.timeline =
     Append(@, TimelineEntry(<<"Stage changed to", doc.currentStage>>,
                  IF TruthyStr(doc.decision.madeBy) THEN doc.decision.madeBy ELSE Null,
                  Undef))]

\* pre('save'): one more timeline entry when currentStage is modified
preSave(doc, stageModified) ==
  IF stageModified
  THEN [doc EXCEPT !.timeline =
          TimelinePush(@, TimelineEntry(<<"Stage changed to", doc.currentStage>>,
                          IF TruthyStr(doc.decision.madeBy) THEN doc.decision.madeBy ELSE Null,
                          Undef))]
  ELSE doc

\* document.save(): validation, then the hook, then the write.
\* The result is the error message (NoError when saved) and the stored document.
save(doc, stageModified) ==
  IF ValidDocument(doc)
  THEN [err |-> NoError, doc |-> preSave(doc, stageModified)]
  ELSE [err |-> "InterviewCandidate validation failed", doc |-> doc]

\* ------------------------------------------------------------ repositories
\* BaseRepository.create: new this.model(data) and save(). Every path given
\* to the constructor of a new document counts as modified.
create(data) ==
  LET r == save(NewDocument(data), TRUE)
  IN IF r.err = NoError THEN r
     ELSE [r EXCEPT !.err = "Failed to create InterviewCandidate"]

\* a lookup that finds nothing
findByCareerApplicationNever(cands, a) == 0

\* findOne({ careerApplication: id }): the first match in insertion order, 0 for null
findByCareerApplication(cands, a) ==
  IF \E i \in DOMAIN cands : cands[i].careerApplication = a
  THEN CHOOSE i \in DOMAIN cands :
         /\ cands[i].careerApplication = a
         /\ \A j \in DOMAIN cands : cands[j].careerApplication = a => i <= j
  ELSE 0

\* ------------------------------------------------ createFromApplication
candidateData(a, userId) ==
  [careerApplication |-> a,
   currentStage |-> "screening",
   timeline |-> << TimelineEntry(<<"Candidate created from application">>,
                                 IF TruthyStr(userId) THEN userId ELSE "system",
                                 "Automatically moved to interview process") >>]

Result(op, target, err, ret, log) ==
  [op |-> op, target |-> target, err |-> err, ret |-> ret, log |-> log]

Idle == [pc |-> "idle", app |-> 0, userId |-> Undef]

\* the third step of a call: interviewCandidateRepository.create(candidateData)
createStep(cands, a, userId) ==
  LET r == create(candidateData(a, userId))
  IN IF r.err = NoError
     THEN [cands |-> Append(cands, r.doc),
           last |-> Result("createFromApplication", a, NoError, Len(cands) + 1,
                           "Interview candidate created")]
     ELSE [cands |-> cands,
           last |-> Result("createFromApplication", a, r.err, 0, "")]

\* a call that does not look the application up
createFromApplicationUnchecked(apps, cands, a, userId) ==
  LET existing == findByCareerApplication(cands, a)
  IN IF existing # 0
     THEN [cands |-> cands,
           last |-> Result("createFromApplication", a, NoError, existing,
                           "Interview candidate already exists")]
     ELSE createStep(cands, a, userId)

\* the whole of createFromApplication, when nothing else runs in between
createFromApplication(apps, cands, a, userId) ==
  IF a \notin apps
  THEN [cands |-> cands,
        last |-> Result("createFromApplication", a, "Career application not found", 0, "")]
  ELSE LET existing == findByCareerApplication(cands, a)
       IN IF existing # 0
          THEN [cands |-> cands,
                last |-> Result("createFromApplication", a, NoError, existing,
                                "Interview candidate already exists")]
          ELSE createStep(cands, a, userId)

\* ------------------------------------------------------ scheduleInterview
\* validateInterviewData: the message of the error it throws, NoError if none
\* a validation that lets an interview at the present instant through
validateInterviewDataLax(d, t) ==
  IF ~TruthyStr(d.stage) THEN "stage is required"
  ELSE IF d.scheduledAt = None THEN "scheduledAt is required"
  ELSE IF ~TruthyArr(d.interviewers) THEN "interviewers is required"
  ELSE IF d.scheduledAt[1] < t THEN "Interview must be scheduled in the future"
  ELSE IF Len(d.interviewers[1]) = 0 THEN "At least one interviewer is required"
  ELSE NoError

validateInterviewData(d, t) ==
  IF ~TruthyStr(d.stage) THEN "stage is required"
  ELSE IF d.scheduledAt = None THEN "scheduledAt is required"
  ELSE IF ~TruthyArr(d.interviewers) THEN "interviewers is required"
  ELSE IF d.scheduledAt[1] <= t THEN "Interview must be scheduled in the future"
  ELSE IF Len(d.interviewers[1]) = 0 THEN "At least one interviewer is required"
  ELSE NoError

\* the interview subdocument made of { ...interviewData, status: 'scheduled' }
Interview(d) ==
  [stage |-> d.stage, scheduledAt |-> d.scheduledAt, interviewers |-> d.interviewers[1],
   status |-> "scheduled", feedback |-> Undef, rating |-> None]

\* methods.scheduleInterview: two pushes and save()
docScheduleInterview(doc, d) ==
  save([doc EXCEPT
          !.interviews = Append(@, Interview(d)),
          !.timeline = TimelinePush(@, TimelineEntry(<<"Interview scheduled for", d.stage>>,
                                         Undef, <<"Scheduled for", d.scheduledAt[1]>>))],
       FALSE)

\* A service call on the collection cands at time t: the collection after the
\* call and the outcome the caller sees.
Outcome(cands, op, c, err) ==
  [cands |-> cands, last |-> Result(op, 0, err, IF err = NoError THEN c ELSE 0, "")]

scheduleInterview(cands, c, d, userId, t) ==
  LET v == validateInterviewData(d, t)
  IN IF v # NoError THEN Outcome(cands, "scheduleInterview", c, v)
     ELSE IF c \notin DOMAIN cands
     THEN Outcome(cands, "scheduleInterview", c, "Interview candidate not found")
     ELSE LET r == docScheduleInterview(cands[c], d)
          IN IF r.err # NoError THEN Outcome(cands, "scheduleInterview", c, r.err)
             ELSE Outcome([cands EXCEPT ![c] = r.doc], "scheduleInterview", c, NoError)

\* ------------------------------------------------------------ repository.update
\* The service calls interviewCandidateRepository.update(id, data). Neither
\* InterviewCandidateRepository nor BaseRepository defines update (they define
\* updateById), so the call throws a TypeError and writes nothing.
UpdateIsNotAFunction == "this.interviewCandidateRepository.update is not a function"
update(cands, c, data) == [err |-> UpdateIsNotAFunction, cands |-> cands]

\* ------------------------------------------------ updateInterviewFeedback
\* repository.updateInterviewFeedback: $set of the truthy ones of feedback and rating
repoUpdateInterviewFeedback(doc, idx, feedback, rating) ==
  [doc EXCEPT !.interviews[idx + 1] =
     [@ EXCEPT !.feedback = IF TruthyStr(feedback) THEN feedback ELSE @,
               !.rating = IF TruthyNum(rating) THEN rating ELSE @]]

\* a call that counts the interviews from one
updateInterviewFeedbackFromOne(cands, c, idx, feedback, rating, userId) ==
  IF TruthyNum(rating) /\ (rating[1] < 1 \/ rating[1] > 5)
  THEN Outcome(cands, "updateInterviewFeedback", c, "Rating must be between 1 and 5")
  ELSE IF c \notin DOMAIN cands
  THEN Outcome(cands, "updateInterviewFeedback", c, "Interview candidate not found")
  ELSE IF idx \notin DOMAIN cands[c].interviews
  THEN Outcome(cands, "updateInterviewFeedback", c, "Interview not found")
  ELSE LET written == [cands EXCEPT ![c] = repoUpdateInterviewFeedback(@, idx - 1, feedback, rating)]
           u == update(written, c, (<<"interviews", idx, "status">> :> "completed"))
       IN Outcome(u.cands, "updateInterviewFeedback", c, u.err)

updateInterviewFeedback(cands, c, idx, feedback, rating, userId) ==
  IF TruthyNum(rating) /\ (rating[1] < 1 \/ rating[1] > 5)
  THEN Outcome(cands, "updateInterviewFeedback", c, "Rating must be between 1 and 5")
  ELSE IF c \notin DOMAIN cands
  THEN Outcome(cands, "updateInterviewFeedback", c, "Interview candidate not found")
  ELSE IF (idx + 1) \notin DOMAIN cands[c].interviews
  THEN Outcome(cands, "updateInterviewFeedback", c, "Interview not found")
  ELSE LET written == [cands EXCEPT ![c] = repoUpdateInterviewFeedback(@, idx, feedback, rating)]
           u == update(written, c, (<<"interviews", idx, "status">> :> "completed"))
       IN Outcome(u.cands, "updateInterviewFeedback", c, u.err)

\* ------------------------------------------------------------ updateStage
\* a method that lets no candidate leave a final stage
docUpdateStageGuarded(doc, newStage, performedBy) ==
  IF doc.currentStage \in {"hired", "rejected"} /\ newStage # doc.currentStage
  THEN [err |-> "InterviewCandidate validation failed", doc |-> doc]
  ELSE save([doc EXCEPT
               !.currentStage = newStage,
               !.timeline = Append(@, TimelineEntry(<<"Stage updated to", newStage>>,
                                        performedBy, Undef))],
            newStage # doc.currentStage)

\* methods.updateStage: assignment, push and save(); the assignment marks
\* currentStage modified only when the value changes
docUpdateStage(doc, newStage, performedBy) ==
  save([doc EXCEPT
          !.currentStage = newStage,
          !.timeline = TimelinePush(@, TimelineEntry(<<"Stage updated to", newStage>>,
                                         performedBy, Undef))],
       newStage # doc.currentStage)

updateStage(cands, c, newStage, userId) ==
  IF newStage \notin Stages THEN Outcome(cands, "updateStage", c, "Invalid stage")
  ELSE IF c \notin DOMAIN cands THEN Outcome(cands, "updateStage", c, "Candidate not found")
  ELSE LET r == docUpdateStage(cands[c], newStage, userId)
       IN IF r.err # NoError THEN Outcome(cands, "updateStage", c, r.err)
          ELSE Outcome([cands EXCEPT ![c] = r.doc], "updateStage", c, NoError)

\* ----------------------------------------------------------- makeDecision
\* a method that moves an approved candidate to 'hired' and a rejected one to 'rejected'
docMakeDecisionMoving(doc, decision, performedBy, notes, t) ==
  LET n == IF notes = Undef THEN "" ELSE notes
      stage == IF decision = "approved" THEN "hired"
               ELSE IF decision = "rejected" THEN "rejected" ELSE doc.currentStage
  IN save([doc EXCEPT
             !.currentStage = stage,
             !.decision = [status |-> decision, madeBy |-> performedBy,
                           madeAt |-> Some(t), notes |-> n],
             !.timeline = Append(@, TimelineEntry(<<"Decision made:", decision>>,
                                      performedBy, n))],
          stage # doc.currentStage)

\* a method that merges the decision into the stored one
docMakeDecisionMerged(doc, decision, performedBy, notes, t) ==
  LET n == IF notes = Undef THEN doc.decision.notes ELSE notes
  IN save([doc EXCEPT
             !.decision = [status |-> decision, madeBy |-> performedBy,
                           madeAt |-> Some(t), notes |-> n],
             !.timeline = Append(@, TimelineEntry(<<"Decision made:", decision>>,
                                      performedBy, n))],
          FALSE)

\* methods.makeDecision(decision, performedBy, notes = ''): the decision
\* subdocument is assigned whole
docMakeDecision(doc, decision, performedBy, notes, t) ==
  LET n == IF notes = Undef THEN "" ELSE notes
  IN save([doc EXCEPT
             !.decision = [status |-> decision, madeBy |-> performedBy,
                           madeAt |-> Some(t), notes |-> n],
             !.timeline = TimelinePush(@, TimelineEntry(<<"Decision made:", decision>>,
                                            performedBy, n))],
          FALSE)

makeDecision(cands, c, decision, notes, userId, t) ==
  IF decision \notin DecisionStatuses THEN Outcome(cands, "makeDecision", c, "Invalid decision")
  ELSE IF c \notin DOMAIN cands THEN Outcome(cands, "makeDecision", c, "Candidate not found")
  ELSE LET r == docMakeDecision(cands[c], decision, userId, notes, t)
       IN IF r.err # NoError THEN Outcome(cands, "makeDecision", c, r.err)
          ELSE Outcome([cands EXCEPT ![c] = r.doc], "makeDecision", c, NoError)

\* ------------------------------------------------------- addCommunication
\* a validation that does not look at the type
validateCommunicationDataAnyType(d) ==
  IF ~TruthyStr(d.type) THEN "type is required"
  ELSE IF ~TruthyStr(d.subject) THEN "subject is required"
  ELSE IF ~TruthyStr(d.content) THEN "content is required"
  ELSE NoError

validateCommunicationData(d) ==
  IF ~TruthyStr(d.type) THEN "type is required"
  ELSE IF ~TruthyStr(d.subject) THEN "subject is required"
  ELSE IF ~TruthyStr(d.content) THEN "content is required"
  ELSE IF d.type \notin CommunicationTypes THEN "Invalid communication type"
  ELSE NoError

\* findByIdAndUpdate(id, { $push: { communications } }): null for an unknown
\* id, and the service returns that null as its result
addCommunication(cands, c, d, userId, t) ==
  LET v == validateCommunicationData(d)
      communication == [type |-> d.type, subject |-> d.subject, content |-> d.content,
                        initiatedBy |-> userId, date |-> t, status |-> "sent"]
  IN IF v # NoError THEN Outcome(cands, "addCommunication", c, v)
     ELSE IF c \notin DOMAIN cands
     THEN [cands |-> cands, last |-> Result("addCommunication", 0, NoError, 0, "")]
     ELSE Outcome([cands EXCEPT ![c].communications = Append(@, communication)],
                  "addCommunication", c, NoError)

\* ---------------------------------------------------- ratings and skills
updateOverallRating(cands, c, rating, userId) ==
  IF rating # None /\ (rating[1] < 1 \/ rating[1] > 5)
  THEN Outcome(cands, "updateOverallRating", c, "Rating must be between 1 and 5")
  ELSE LET u == update(cands, c,
                  ("overallRating" :> rating) @@
                  ("timeline" :> TimelineEntry(<<"Overall rating updated to", rating>>, userId, Undef)))
       IN Outcome(u.cands, "updateOverallRating", c, u.err)

Skills == <<"technical", "communication", "problemSolving", "culturalFit">>

SkillError ==
  [technical |-> "technical rating must be between 1 and 5",
   communication |-> "communication rating must be between 1 and 5",
   problemSolving |-> "problemSolving rating must be between 1 and 5",
   culturalFit |-> "culturalFit rating must be between 1 and 5"]

\* validateSkillsData: the skills are checked in order, a falsy value is skipped
validateSkillsData(skillsData) ==
  LET bad == {i \in DOMAIN Skills :
                /\ TruthyNum(skillsData[Skills[i]])
                /\ (skillsData[Skills[i]][1] < 1 \/ skillsData[Skills[i]][1] > 5)}
  IN IF bad = {} THEN NoError
     ELSE SkillError[Skills[CHOOSE i \in bad : \A j \in bad : i <= j]]

updateSkillsAssessment(cands, c, skillsData, userId) ==
  LET v == validateSkillsData(skillsData)
  IN IF v # NoError THEN Outcome(cands, "updateSkillsAssessment", c, v)
     ELSE LET u == update(cands, c,
                     ("skillsAssessment" :> skillsData) @@
                     ("timeline" :> TimelineEntry(<<"Skills assessment updated">>, userId, Undef)))
          IN Outcome(u.cands, "updateSkillsAssessment", c, u.err)

\* ------------------------------------------------------------------ offers
OfferValidDays == 7

\* a validation that rejects nothing
validateOfferDataSkipped(o, t) == NoError
validateOfferData(o, t) ==
  IF ~TruthyNum(o.salary) THEN "salary is required"
  ELSE IF o.startDate = None THEN "startDate is required"
  ELSE IF o.salary[1] <= 0 THEN "Salary must be greater than 0"
  ELSE IF o.startDate[1] <= t THEN "Start date must be in the future"
  ELSE NoError

NotFinalInterview == "Candidate must be in final interview stage to receive offer"

createOffer(cands, c, o, userId, t) ==
  LET v == validateOfferData(o, t)
  IN IF v # NoError THEN Outcome(cands, "createOffer", c, v)
     ELSE IF c \notin DOMAIN cands
     THEN Outcome(cands, "createOffer", c, "Interview candidate not found")
     ELSE IF cands[c].currentStage # "final-interview"
     THEN Outcome(cands, "createOffer", c, NotFinalInterview)
     ELSE LET u == update(cands, c,
                     ("offer" :> [salary |-> o.salary, startDate |-> o.startDate,
                                  status |-> "pending", validUntil |-> Some(t + OfferValidDays)]) @@
                     ("currentStage" :> "offer") @@
                     ("timeline" :> TimelineEntry(<<"Offer created">>, userId,
                                                  <<"Offer amount:", o.salary>>)))
          IN Outcome(u.cands, "createOffer", c, u.err)

updateOfferStatus(cands, c, status, userId, t) ==
  IF status \notin OfferStatuses
  THEN Outcome(cands, "updateOfferStatus", c, "Invalid offer status")
  ELSE LET base == ("offer.status" :> status) @@
                   ("timeline" :> TimelineEntry(<<"Offer", status>>, userId, Undef))
           coupled(stage, decision) ==
             base @@ ("currentStage" :> stage) @@ ("decision.status" :> decision) @@
             ("decision.madeBy" :> userId) @@ ("decision.madeAt" :> Some(t))
           data == IF status = "accepted" THEN coupled("hired", "approved")
                   ELSE IF status = "declined" THEN coupled("rejected", "rejected")
                   ELSE base
           u == update(cands, c, data)
       IN Outcome(u.cands, "updateOfferStatus", c, u.err)

\* ----------------------------------------------------------------- Init
\* ------------------------------------------------ findWithUpcomingInterviews
UpcomingDays == 7

\* model.find({ 'interviews.scheduledAt': { $gte: now, $lte: nextWeek },
\*              'interviews.status': 'scheduled' }): on a path through an array
\* each condition holds when some element meets it, not the same element for
\* all of them (the filter has no $elemMatch)
findWithUpcomingInterviews(cands, t) ==
  {c \in DOMAIN cands :
     /\ \E i \in DOMAIN cands[c].interviews : cands[c].interviews[i].scheduledAt[1] >= t
     /\ \E i \in DOMAIN cands[c].interviews :
          cands[c].interviews[i].scheduledAt[1] <= t + UpcomingDays
     /\ \E i \in DOMAIN cands[c].interviews : cands[c].interviews[i].status = "scheduled"}

\* --------------------------------------------------------------- JobService
JobStatuses == {"draft", "published", "closed", "archived"}
JobUsers == {"u1", "u2"}

\* the methods a JobRepository has: its own and those of BaseRepository
JobRepositoryMethods ==
  {"create", "findById", "findAll", "findOne", "updateById", "deleteById", "count",
   "exists", "findActiveJobs", "findByDepartment", "findRemoteJobs", "searchJobs",
   "findJobsByFilters", "findUrgentJobs", "findJobsExpiringSoon", "getJobStatistics",
   "updateJobStatus", "findJobsByUser"}

\* this.jobRepository[method](...): a TypeError for a method that is not there
NotAFunction(method) ==
  IF method \in JobRepositoryMethods THEN NoError
  ELSE IF method = "update" THEN "this.jobRepository.update is not a function"
  ELSE "this.jobRepository.delete is not a function"

\* a job document: the fields the service looks at
Job(title, salary, status, postedBy) ==
  [title |-> title, salary |-> salary, status |-> status, postedBy |-> postedBy]

\* validateJobData: required fields, salary.min <= salary.max
validateJobData(d) ==
  IF ~TruthyStr(d.title) THEN "title is required"
  ELSE IF d.salary = None THEN "salary is required"
  ELSE IF d.salary[1][1] > d.salary[1][2]
  THEN "Minimum salary cannot be greater than maximum salary"
  ELSE NoError

\* validateJobUpdateData: the salary, if one is given
validateJobUpdateData(d) ==
  IF d.salary # None /\ d.salary[1][1] > d.salary[1][2]
  THEN "Minimum salary cannot be greater than maximum salary"
  ELSE NoError

\* a placeholder in the source: nobody is an admin
isAdmin(userId) == FALSE

JobOutcome(js, op, j, err) ==
  [jobs |-> js, last |-> Result(op, j, err, IF err = NoError THEN j ELSE 0, "")]

\* findById(jobId): the document, <<>> for null
findJobById(js, j) == IF j \in DOMAIN js THEN js[j] ELSE None

\* job.postedBy.toString() !== userId && !this.isAdmin(userId)
Unauthorized(job, userId) == job.postedBy # userId /\ ~isAdmin(userId)

createJob(js, d, userId) ==
  LET v == validateJobData(d)
  IN IF v # NoError THEN JobOutcome(js, "createJob", 0, v)
     ELSE IF ~TruthyStr(userId)
     THEN JobOutcome(js, "createJob", 0, "Failed to create Job")
     ELSE JobOutcome(Append(js, Some(Job(d.title, d.salary[1], "draft", userId))),
                     "createJob", Len(js) + 1, NoError)

updateJob(js, j, d, userId) ==
  LET v == validateJobUpdateData(d)
      job == findJobById(js, j)
  IN IF v # NoError THEN JobOutcome(js, "updateJob", j, v)
     ELSE IF job = None THEN JobOutcome(js, "updateJob", j, "Job not found")
     ELSE IF Unauthorized(job[1], userId)
     THEN JobOutcome(js, "updateJob", j, "Unauthorized to update this job")
     ELSE IF NotAFunction("update") # NoError
     THEN JobOutcome(js, "updateJob", j, NotAFunction("update"))
     ELSE JobOutcome([js EXCEPT ![j] =
                        Some([job[1] EXCEPT
                                !.title = IF d.title = Undef THEN @ ELSE d.title,
                                !.salary = IF d.salary = None THEN @ ELSE d.salary[1]])],
                     "updateJob", j, NoError)

deleteJob(js, j, userId) ==
  LET job == findJobById(js, j)
  IN IF job = None THEN JobOutcome(js, "deleteJob", j, "Job not found")
     ELSE IF Unauthorized(job[1], userId)
     THEN JobOutcome(js, "deleteJob", j, "Unauthorized to delete this job")
     ELSE IF NotAFunction("delete") # NoError
     THEN JobOutcome(js, "deleteJob", j, NotAFunction("delete"))
     ELSE JobOutcome([js EXCEPT ![j] = None], "deleteJob", j, NoError)

\* methods.publish / methods.close: this.status = ...; this.save(), whose hook
\* passes for a stored job (salary.min <= salary.max)
setJobStatus(js, j, status) == [js EXCEPT ![j] = Some([js[j][1] EXCEPT !.status = status])]

publishJob(js, j, userId) ==
  LET job == findJobById(js, j)
  IN IF job = None THEN JobOutcome(js, "publishJob", j, "Job not found")
     ELSE IF Unauthorized(job[1], userId)
     THEN JobOutcome(js, "publishJob", j, "Unauthorized to publish this job")
     ELSE JobOutcome(setJobStatus(js, j, "published"), "publishJob", j, NoError)

closeJob(js, j, userId) ==
  LET job == findJobById(js, j)
  IN IF job = None THEN JobOutcome(js, "closeJob", j, "Job not found")
     ELSE IF Unauthorized(job[1], userId)
     THEN JobOutcome(js, "closeJob", j, "Unauthorized to close this job")
     ELSE JobOutcome(setJobStatus(js, j, "closed"), "closeJob", j, NoError)

\* the ownership check comes before the check of the status
updateJobStatus(js, j, status, userId) ==
  LET job == findJobById(js, j)
  IN IF job = None THEN JobOutcome(js, "updateJobStatus", j, "Job not found")
     ELSE IF Unauthorized(job[1], userId)
     THEN JobOutcome(js, "updateJobStatus", j, "Unauthorized to update job status")
     ELSE IF status \notin JobStatuses
     THEN JobOutcome(js, "updateJobStatus", j, "Invalid job status")
     ELSE JobOutcome(setJobStatus(js, j, status), "updateJobStatus", j, NoError)

\* ------------------------------------- calls that overlap on one candidate
\* repository.updateStage / makeDecision: findById, then the document method,
\* which ends in save(). Between the two the call holds its own copy.
IdleWriter ==
  [pc |-> "idle", op |-> "", cand |-> 0, arg |-> "", userId |-> Undef, doc |-> None]
NoWriters == [calls |-> [p \in Procs |-> IdleWriter], history |-> <<>>]
WriterEvent(event, p, w, err) ==
  [event |-> event, proc |-> p, op |-> w.op, cand |-> w.cand, arg |-> w.arg, err |-> err]

\* the document method of the call, run on the copy it read
docMethod(w, t) ==
  IF w.op = "updateStage" THEN docUpdateStage(w.doc[1], w.arg, w.userId)
  ELSE docMakeDecision(w.doc[1], w.arg, w.userId, Undef, t)

\* a save() that fails when the stored document is not the one that was read
writeBackVersioned(stored, read, saved) ==
  IF stored # read
  THEN [err |-> "No matching document found for id and version", doc |-> stored]
  ELSE [err |-> NoError, doc |-> saved]

\* save() of a document that was read earlier: the update holds only what the
\* call changed ($set of the modified paths, $push of the pushed elements) and
\* its filter is the _id alone, so it applies to whatever is stored by then
writeBack(stored, read, saved) ==
  [err |-> NoError,
   doc |-> [stored EXCEPT
              !.currentStage =
                 IF saved.currentStage # read.currentStage THEN saved.currentStage ELSE @,
              !.decision = IF saved.decision # read.decision THEN saved.decision ELSE @,
              !.interviews =
                 @ \o SubSeq(saved.interviews, Len(read.interviews) + 1, Len(saved.interviews)),
              !.timeline =
                 @ \o SubSeq(saved.timeline, Len(read.timeline) + 1, Len(saved.timeline))]]

\* ------------------------------------------------------------ EmailService
\* constructor: this.transporter = null
NoMail == [transporter |-> Null, pending |-> {}, sent |-> {}, failed |-> {}]
Email(a, kind) == [app |-> a, kind |-> kind]

\* the part of an email method that runs before its first await: without a
\* transporter it returns false at once, otherwise sendMail is in flight
sendEmail(m, a, kind) ==
  IF m.transporter = Null THEN m
  ELSE [m EXCEPT !.pending = @ \cup {Email(a, kind)}]
sendApplicationConfirmation(m, a) == sendEmail(m, a, "confirmation")
sendHRNotification(m, a) == sendEmail(m, a, "hr")

\* res.status(code).json({ message }), and whether the handler of the route ran
Response(route, status, message, handled) ==
  [route |-> route, status |-> status, message |-> message, handled |-> handled]
NoResponse == Response("", 0, "", FALSE)

Init ==
  /\ applications = {}
  /\ nextApp = 0
  /\ candidates = <<>>
  /\ calls = [p \in Procs |-> Idle]
  /\ now = 0
  /\ last = Result("init", 0, NoError, 0, "")
  /\ response = NoResponse
  /\ mail = NoMail
  /\ jobs = <<>>
  /\ writers = NoWriters

IdleProcs == {p \in Procs : calls[p].pc = "idle"}

\* ------------------------------------------- CareerApplicationService
\* createApplication: store the application, start createFromApplication(id,
\* 'system') without awaiting it, return the application.
CreateApplication ==
  /\ nextApp < MaxApps
  /\ IdleProcs # {}
  /\ LET a == nextApp + 1
         p == CHOOSE q \in IdleProcs : \A r \in IdleProcs : q <= r
     IN /\ applications' = applications \cup {a}
        /\ nextApp' = a
        /\ calls' = [calls EXCEPT ![p] = [pc |-> "findApplication", app |-> a, userId |-> "system"]]
        /\ last' = Result("createApplication", a, NoError, a, "")
        /\ mail' = sendHRNotification(sendApplicationConfirmation(mail, a), a)
  /\ UNCHANGED <<candidates, now, response, jobs, writers>>

\* a delete that takes the candidates of the application with it
DeleteApplicationCascade(a) ==
  /\ a \in applications
  /\ applications' = applications \ {a}
  /\ candidates' = SelectSeq(candidates, LAMBDA d : d.careerApplication # a)
  /\ last' = Result("deleteApplication", a, NoError, a, "")
  /\ UNCHANGED <<nextApp, calls, now, response, mail, jobs, writers>>

\* deleteApplication: findByIdAndDelete; 'Application not found' when absent
DeleteApplication(a) ==
  /\ IF a \in applications
     THEN /\ applications' = applications \ {a}
          /\ last' = Result("deleteApplication", a, NoError, a, "")
     ELSE /\ applications' = applications
          /\ last' = Result("deleteApplication", a, "Failed to delete application: Application not found", 0, "")
  /\ UNCHANGED <<nextApp, candidates, calls, now, response, mail, jobs, writers>>

\* initializeTransporter, at construction, before any request is served:
\* nodemailer (not part of this repository) hands back a transporter, or the
\* call throws and the transporter stays null (the step is not taken)
InitializeTransporter ==
  /\ nextApp = 0
  /\ mail.transporter = Null
  /\ mail' = [mail EXCEPT !.transporter = "transporter"]
  /\ UNCHANGED <<applications, nextApp, candidates, calls, now, last, response, jobs, writers>>

\* an email whose failure takes the application back out of the store
SendMailRollsBack(a, kind, ok) ==
  /\ Email(a, kind) \in mail.pending
  /\ mail' = [mail EXCEPT !.pending = @ \ {Email(a, kind)},
                          !.sent = IF ok THEN @ \cup {Email(a, kind)} ELSE @,
                          !.failed = IF ok THEN @ ELSE @ \cup {Email(a, kind)}]
  /\ applications' = IF ok THEN applications ELSE applications \ {a}
  /\ UNCHANGED <<nextApp, candidates, calls, now, last, response, jobs, writers>>

\* await this.transporter.sendMail(mailOptions) settles: the method returns
\* true, or logs the error and returns false
SendMail(a, kind, ok) ==
  /\ Email(a, kind) \in mail.pending
  /\ mail' = [mail EXCEPT !.pending = @ \ {Email(a, kind)},
                          !.sent = IF ok THEN @ \cup {Email(a, kind)} ELSE @,
                          !.failed = IF ok THEN @ ELSE @ \cup {Email(a, kind)}]
  /\ UNCHANGED <<applications, nextApp, candidates, calls, now, last, response, jobs, writers>>

\* ------------------------------ createFromApplication, call by call
\* The service call as one step (no other operation between its awaits).
CreateFromApplication(a, userId) ==
  /\ LET r == createFromApplication(applications, candidates, a, userId)
     IN /\ Len(r.cands) <= MaxCandidates
        /\ candidates' = r.cands
        /\ last' = r.last
  /\ UNCHANGED <<applications, nextApp, calls, now, response, mail, jobs, writers>>

\* The automatic call started by createApplication, run as one step.
AutoCreateFromApplication(p) ==
  /\ calls[p].pc = "findApplication"
  /\ LET r == createFromApplication(applications, candidates, calls[p].app, calls[p].userId)
     IN /\ Len(r.cands) <= MaxCandidates
        /\ candidates' = r.cands
        /\ last' = r.last
  /\ calls' = [calls EXCEPT ![p] = Idle]
  /\ UNCHANGED <<applications, nextApp, now, response, mail, jobs, writers>>

\* The same call split at its awaits, for interleavings of several calls.
CallCreateFromApplication(p, a, userId) ==
  /\ calls[p].pc = "idle"
  /\ calls' = [calls EXCEPT ![p] = [pc |-> "findApplication", app |-> a, userId |-> userId]]
  /\ UNCHANGED <<applications, nextApp, candidates, now, last, response, mail, jobs, writers>>

\* await careerApplicationRepository.findById(careerApplicationId)
CFA_FindApplication(p) ==
  /\ calls[p].pc = "findApplication"
  /\ IF calls[p].app \in applications
     THEN /\ calls' = [calls EXCEPT ![p].pc = "findByCareerApplication"]
          /\ last' = last
     ELSE /\ calls' = [calls EXCEPT ![p] = Idle]
          /\ last' = Result("createFromApplication", calls[p].app,
                            "Career application not found", 0, "")
  /\ UNCHANGED <<applications, nextApp, candidates, now, response, mail, jobs, writers>>

\* await interviewCandidateRepository.findByCareerApplication(careerApplicationId)
CFA_FindByCareerApplication(p) ==
  /\ calls[p].pc = "findByCareerApplication"
  /\ LET existing == findByCareerApplication(candidates, calls[p].app)
     IN IF existing # 0
        THEN /\ calls' = [calls EXCEPT ![p] = Idle]
             /\ last' = Result("createFromApplication", calls[p].app, NoError, existing,
                               "Interview candidate already exists")
        ELSE /\ calls' = [calls EXCEPT ![p].pc = "create"]
             /\ last' = last
  /\ UNCHANGED <<applications, nextApp, candidates, now, response, mail, jobs, writers>>

\* await interviewCandidateRepository.create(candidateData)
CFA_Create(p) ==
  /\ calls[p].pc = "create"
  /\ Len(candidates) < MaxCandidates
  /\ LET r == createStep(candidates, calls[p].app, calls[p].userId)
     IN /\ candidates' = r.cands
        /\ last' = r.last
  /\ calls' = [calls EXCEPT ![p] = Idle]
  /\ UNCHANGED <<applications, nextApp, now, response, mail, jobs, writers>>

\* ------------------------------------------------- lifecycle operations
\* inputs of the lifecycle calls
CandIdInputs == CandIds
Ratings == {None, Some(0 - 1), Some(0), Some(1), Some(4), Some(5), Some(6)}
\* userId for the calls that store it, and for those that only pass it on to update
StoredActors == Users
PassedActors == {"u1"}
StageInputs == Stages \cup {"interviewing"}
DecisionInputs == DecisionStatuses \cup {"maybe"}
DecisionCalls ==
  {<<d, Undef>> : d \in DecisionInputs} \cup {<<"approved", "n1">>}
OfferStatusInputs == OfferStatuses \cup {"withdrawn"}

InterviewData(stage, scheduledAt, interviewers) ==
  [stage |-> stage, scheduledAt |-> scheduledAt, interviewers |-> interviewers]
InterviewInputs(t) ==
  {InterviewData(s, Some(t + 1), Some(<<"u1">>)) : s \in {"screening", "offer", Undef}}
  \cup {InterviewData("screening", w, Some(<<"u1">>)) : w \in {None, Some(t)}}
  \cup {InterviewData("screening", Some(t + 1), i) : i \in {None, Some(<<>>)}}

\* <<interviewIndex, feedback, rating>>
FeedbackCalls ==
  {<<0, "Good fit", r>> : r \in Ratings \ {None}}
  \cup {<<0, Undef, Some(5)>>, <<1, "Good fit", Some(4)>>, <<0 - 1, "Good fit", Some(4)>>}

CommunicationData(type, subject, content) ==
  [type |-> type, subject |-> subject, content |-> content]
CommunicationInputs ==
  {CommunicationData(ty, "subject", "content") : ty \in {"email", "fax", Undef}}
  \cup {CommunicationData("email", Undef, "content"), CommunicationData("email", "subject", Undef)}

NoSkills ==
  [technical |-> None, communication |-> None, problemSolving |-> None, culturalFit |-> None]
SkillsInputs ==
  {[NoSkills EXCEPT ![Skills[i]] = r] : i \in DOMAIN Skills, r \in {Some(0), Some(6)}}
  \cup {[NoSkills EXCEPT !.technical = r] : r \in {Some(0 - 1), Some(1), Some(5)}}

OfferData(salary, startDate) == [salary |-> salary, startDate |-> startDate]
OfferInputs(t) ==
  {OfferData(s, Some(t + 1)) : s \in {Some(80000), Some(0), Some(0 - 1), None}}
  \cup {OfferData(Some(80000), d) : d \in {None, Some(t)}}
  \cup {OfferData(None, None)}

\* the specifications keep every candidate within the bounds
WithinBounds(cands) ==
  \A c \in DOMAIN cands :
    /\ Len(cands[c].timeline) <= MaxTimeline
    /\ Len(cands[c].interviews) <= MaxInterviews
    /\ Len(cands[c].communications) <= MaxComms

ScheduleInterview(c, d, userId) ==
  LET r == scheduleInterview(candidates, c, d, userId, now)
  IN /\ candidates' = r.cands
     /\ last' = r.last
     /\ UNCHANGED <<applications, nextApp, calls, now, response, mail, jobs, writers>>

UpdateInterviewFeedback(c, idx, feedback, rating, userId) ==
  LET r == updateInterviewFeedback(candidates, c, idx, feedback, rating, userId)
  IN /\ candidates' = r.cands
     /\ last' = r.last
     /\ UNCHANGED <<applications, nextApp, calls, now, response, mail, jobs, writers>>

UpdateStage(c, newStage, userId) ==
  LET r == updateStage(candidates, c, newStage, userId)
  IN /\ candidates' = r.cands
     /\ last' = r.last
     /\ UNCHANGED <<applications, nextApp, calls, now, response, mail, jobs, writers>>

MakeDecision(c, decision, notes, userId) ==
  LET r == makeDecision(candidates, c, decision, notes, userId, now)
  IN /\ candidates' = r.cands
     /\ last' = r.last
     /\ UNCHANGED <<applications, nextApp, calls, now, response, mail, jobs, writers>>

AddCommunication(c, d, userId) ==
  LET r == addCommunication(candidates, c, d, userId, now)
  IN /\ candidates' = r.cands
     /\ last' = r.last
     /\ UNCHANGED <<applications, nextApp, calls, now, response, mail, jobs, writers>>

UpdateOverallRating(c, rating, userId) ==
  LET r == updateOverallRating(candidates, c, rating, userId)
  IN /\ candidates' = r.cands
     /\ last' = r.last
     /\ UNCHANGED <<applications, nextApp, calls, now, response, mail, jobs, writers>>

UpdateSkillsAssessment(c, skillsData, userId) ==
  LET r == updateSkillsAssessment(candidates, c, skillsData, userId)
  IN /\ candidates' = r.cands
     /\ last' = r.last
     /\ UNCHANGED <<applications, nextApp, calls, now, response, mail, jobs, writers>>

CreateOffer(c, o, userId) ==
  LET r == createOffer(candidates, c, o, userId, now)
  IN /\ candidates' = r.cands
     /\ last' = r.last
     /\ UNCHANGED <<applications, nextApp, calls, now, response, mail, jobs, writers>>

UpdateOfferStatus(c, status, userId) ==
  LET r == updateOfferStatus(candidates, c, status, userId, now)
  IN /\ candidates' = r.cands
     /\ last' = r.last
     /\ UNCHANGED <<applications, nextApp, calls, now, response, mail, jobs, writers>>

\* -------------------------------------------------------- specifications
NextRace ==
  \/ CreateApplication
  \/ \E a \in AppIds : DeleteApplication(a)
  \/ \E p \in Procs, a \in AppIds, u \in ActorInputs : CallCreateFromApplication(p, a, u)
  \/ \E p \in Procs : CFA_FindApplication(p)
  \/ \E p \in Procs : CFA_FindByCareerApplication(p)
  \/ \E p \in Procs : CFA_Create(p)

\* createFromApplication calls interleaved at their awaits
SpecRace == Init /\ [][NextRace]_vars

Next ==
  \/ CreateApplication
  \/ \E a \in AppIds : DeleteApplication(a)
  \/ \E a \in AppIds, u \in ActorInputs : CreateFromApplication(a, u)
  \/ \E p \in Procs : AutoCreateFromApplication(p)
  \/ \E c \in CandIdInputs, u \in PassedActors, d \in InterviewInputs(now) :
       ScheduleInterview(c, d, u) /\ WithinBounds(candidates')
  \/ \E c \in CandIdInputs, u \in PassedActors, f \in FeedbackCalls :
       UpdateInterviewFeedback(c, f[1], f[2], f[3], u) /\ WithinBounds(candidates')
  \/ \E c \in CandIdInputs, u \in StoredActors, st \in StageInputs :
       UpdateStage(c, st, u) /\ WithinBounds(candidates')
  \/ \E c \in CandIdInputs, u \in StoredActors, d \in DecisionCalls :
       MakeDecision(c, d[1], d[2], u) /\ WithinBounds(candidates')
  \/ \E c \in CandIdInputs, u \in StoredActors, d \in CommunicationInputs :
       AddCommunication(c, d, u) /\ WithinBounds(candidates')
  \/ \E c \in CandIdInputs, u \in PassedActors, r \in Ratings :
       UpdateOverallRating(c, r, u) /\ WithinBounds(candidates')
  \/ \E c \in CandIdInputs, u \in PassedActors, sk \in SkillsInputs :
       UpdateSkillsAssessment(c, sk, u) /\ WithinBounds(candidates')
  \/ \E c \in CandIdInputs, u \in PassedActors, o \in OfferInputs(now) :
       CreateOffer(c, o, u) /\ WithinBounds(candidates')
  \/ \E c \in CandIdInputs, u \in PassedActors, st \in OfferStatusInputs :
       UpdateOfferStatus(c, st, u) /\ WithinBounds(candidates')

\* every service call runs to completion before the next one starts
Spec == Init /\ [][Next]_vars

\* The calls of SpecRace under the scheduling of the event loop: a call that
\* is between two awaits is resumed when its promise settles.
Fairness ==
  \A p \in Procs :
    /\ WF_vars(CFA_FindApplication(p))
    /\ WF_vars(CFA_FindByCareerApplication(p))
    /\ WF_vars(CFA_Create(p))
SpecLive == Init /\ [][NextRace]_vars /\ Fairness

NextMail ==
  \/ InitializeTransporter
  \/ CreateApplication
  \/ \E a \in AppIds : DeleteApplication(a)
  \/ \E p \in Procs : CFA_FindApplication(p)
  \/ \E p \in Procs : CFA_FindByCareerApplication(p)
  \/ \E p \in Procs : CFA_Create(p)
  \/ \E a \in AppIds, kind \in {"confirmation", "hr"}, ok \in BOOLEAN : SendMail(a, kind, ok)

\* createApplication with everything it starts and does not wait for
SpecMail == Init /\ [][NextMail]_vars

\* getCandidatesWithUpcomingInterviews: the query, which stores nothing
FindWithUpcomingInterviews ==
  /\ last' = Result("findWithUpcomingInterviews", 0, NoError,
                    findWithUpcomingInterviews(candidates, now), "")
  /\ UNCHANGED <<applications, nextApp, candidates, calls, now, response, mail, jobs, writers>>

\* a day passes
Tick ==
  /\ now < MaxNow
  /\ now' = now + 1
  /\ UNCHANGED <<applications, nextApp, candidates, calls, last, response, mail, jobs, writers>>

WithinQueryBounds(cands) ==
  \A c \in DOMAIN cands : Len(cands[c].interviews) <= MaxQueryInterviews

\* interviews next day and in more than a week
QueryInterviewInputs(t) ==
  {InterviewData("phone-interview", Some(t + d), Some(<<"u1">>)) : d \in {1, UpcomingDays + 1}}

NextQuery ==
  \/ CreateApplication
  \/ \E p \in Procs : AutoCreateFromApplication(p)
  \/ \E a \in AppIds, u \in Users : CreateFromApplication(a, u)
  \/ \E c \in CandIdInputs, u \in PassedActors, d \in QueryInterviewInputs(now) :
       ScheduleInterview(c, d, u) /\ WithinQueryBounds(candidates')
  \/ Tick
  \/ FindWithUpcomingInterviews

\* interviews scheduled as days pass, and the query for the upcoming ones
SpecQuery == Init /\ [][NextQuery]_vars

\* ------------------------------------------------------------- job actions
JobIds == 1..MaxJobs
JobIdInputs == 1..(MaxJobs + 1)
JobData(title, salary) == [title |-> title, salary |-> salary]
JobDataInputs ==
  {JobData("t1", Some(<<1, 2>>)), JobData(Undef, Some(<<1, 2>>)),
   JobData("t1", None), JobData("t1", Some(<<2, 1>>))}
JobUpdateInputs ==
  {JobData("t2", None), JobData(Undef, Some(<<2, 3>>)), JobData("t2", Some(<<3, 2>>))}

CreateJob(d, userId) ==
  LET r == createJob(jobs, d, userId)
  IN /\ Len(r.jobs) <= MaxJobs
     /\ jobs' = r.jobs
     /\ last' = r.last
     /\ UNCHANGED <<applications, nextApp, candidates, calls, now, response, mail, writers>>

UpdateJob(j, d, userId) ==
  LET r == updateJob(jobs, j, d, userId)
  IN /\ jobs' = r.jobs
     /\ last' = r.last
     /\ UNCHANGED <<applications, nextApp, candidates, calls, now, response, mail, writers>>

DeleteJob(j, userId) ==
  LET r == deleteJob(jobs, j, userId)
  IN /\ jobs' = r.jobs
     /\ last' = r.last
     /\ UNCHANGED <<applications, nextApp, candidates, calls, now, response, mail, writers>>

PublishJob(j, userId) ==
  LET r == publishJob(jobs, j, userId)
  IN /\ jobs' = r.jobs
     /\ last' = r.last
     /\ UNCHANGED <<applications, nextApp, candidates, calls, now, response, mail, writers>>

CloseJob(j, userId) ==
  LET r == closeJob(jobs, j, userId)
  IN /\ jobs' = r.jobs
     /\ last' = r.last
     /\ UNCHANGED <<applications, nextApp, candidates, calls, now, response, mail, writers>>

UpdateJobStatus(j, status, userId) ==
  LET r == updateJobStatus(jobs, j, status, userId)
  IN /\ jobs' = r.jobs
     /\ last' = r.last
     /\ UNCHANGED <<applications, nextApp, candidates, calls, now, response, mail, writers>>

NextJobs ==
  \/ \E d \in JobDataInputs, u \in JobUsers : CreateJob(d, u)
  \/ \E j \in JobIdInputs, d \in JobUpdateInputs, u \in JobUsers : UpdateJob(j, d, u)
  \/ \E j \in JobIdInputs, u \in JobUsers : DeleteJob(j, u)
  \/ \E j \in JobIdInputs, u \in JobUsers : PublishJob(j, u)
  \/ \E j \in JobIdInputs, u \in JobUsers : CloseJob(j, u)
  \/ \E j \in JobIdInputs, st \in JobStatuses \cup {"open"}, u \in JobUsers :
       UpdateJobStatus(j, st, u)

\* JobService calls one after the other
SpecJobs == Init /\ [][NextJobs]_vars

\* ------------------------------------------------- overlapping calls, steps
Reads(h) == Len(SelectSeq(h, LAMBDA e : e.event = "read"))

\* const candidate = await this.findById(candidateId)
WriterRead(p, op, c, arg, userId) ==
  /\ writers.calls[p].pc = "idle"
  /\ Reads(writers.history) < MaxWrites
  /\ IF c \in DOMAIN candidates
     THEN LET w == [pc |-> "save", op |-> op, cand |-> c, arg |-> arg, userId |-> userId,
                    doc |-> Some(candidates[c])]
          IN /\ writers' = [calls |-> [writers.calls EXCEPT ![p] = w],
                            history |-> Append(writers.history, WriterEvent("read", p, w, NoError))]
             /\ last' = last
     ELSE /\ writers' = writers
          /\ last' = Outcome(candidates, op, c, "Candidate not found").last
  /\ UNCHANGED <<applications, nextApp, candidates, calls, now, response, mail, jobs>>

\* return await candidate.updateStage(...) / candidate.makeDecision(...)
WriterSave(p) ==
  /\ writers.calls[p].pc = "save"
  /\ LET w == writers.calls[p]
         m == docMethod(w, now)
         wb == IF m.err # NoError THEN [err |-> m.err, doc |-> candidates[w.cand]]
               ELSE writeBack(candidates[w.cand], w.doc[1], m.doc)
     IN /\ candidates' = [candidates EXCEPT ![w.cand] = wb.doc]
        /\ last' = Outcome(candidates, w.op, w.cand, wb.err).last
        /\ writers' = [calls |-> [writers.calls EXCEPT ![p] = IdleWriter],
                       history |-> Append(writers.history, WriterEvent("save", p, w, wb.err))]
  /\ UNCHANGED <<applications, nextApp, calls, now, response, mail, jobs>>

WriterInputs ==
  {<<"updateStage", st>> : st \in {"phone-interview", "technical-interview"}}
  \cup {<<"makeDecision", d>> : d \in {"approved", "on-hold"}}

NextWriters ==
  \/ CreateApplication
  \/ \E p \in Procs : AutoCreateFromApplication(p)
  \/ \E a \in AppIds, u \in Users : CreateFromApplication(a, u)
  \/ \E p \in Procs, i \in WriterInputs, c \in CandIdInputs, u \in Users :
       WriterRead(p, i[1], c, i[2], u)
  \/ \E p \in Procs : WriterSave(p)

\* updateStage and makeDecision calls interleaved at the await between their
\* read and their save
SpecWriters == Init /\ [][NextWriters]_vars

\* a longer timeline, for the stage changes alone
WithinStageBounds(cands) ==
  \A c \in DOMAIN cands : Len(cands[c].timeline) <= MaxStageTimeline

NextStage ==
  \/ CreateApplication
  \/ \E a \in AppIds : DeleteApplication(a)
  \/ \E a \in AppIds, u \in ActorInputs : CreateFromApplication(a, u)
  \/ \E p \in Procs : AutoCreateFromApplication(p)
  \/ \E c \in CandIdInputs, u \in StoredActors, st \in StageInputs :
       UpdateStage(c, st, u) /\ WithinStageBounds(candidates')

\* updateStage calls one after the other, on candidates created as in Spec
SpecStage == Init /\ [][NextStage]_vars

\* ================================================================ HTTP layer
Roles == {"user", "manager", "admin"}

\* UserService.generateToken: jwt.sign({ userId, email, role }); the payload
\* is what jwt.verify hands back
generateToken(u, role) == [userId |-> u, role |-> role]

\* The Authorization header of a request: absent, a token that jwt.verify
\* rejects, or a token signed by generateToken.
NoToken == [present |-> FALSE, verifies |-> FALSE, payload |-> generateToken(Undef, Undef)]
InvalidToken == [present |-> TRUE, verifies |-> FALSE, payload |-> generateToken(Undef, Undef)]
SignedToken(u, role) == [present |-> TRUE, verifies |-> TRUE, payload |-> generateToken(u, role)]
TokenInputs == {NoToken, InvalidToken} \cup {SignedToken(u, r) : u \in Users, r \in Roles}

\* a request as it enters the chain of a route: req.user is not set
Request(token) == [token |-> token, user |-> None]

\* what a middleware does: next() (status 0) or a response that ends the chain
CallNext(req) == [status |-> 0, message |-> "", req |-> req]
Reject(status, message, req) == [status |-> status, message |-> message, req |-> req]

\* AuthMiddleware.verifyToken: req.user = decoded
verifyToken(req) ==
  IF ~req.token.present THEN Reject(401, "Access denied. No token provided.", req)
  ELSE IF ~req.token.verifies THEN Reject(401, "Invalid token.", req)
  ELSE CallNext([req EXCEPT !.user = Some(req.token.payload)])

\* AuthMiddleware.requireAdmin
requireAdmin(req) ==
  IF req.user = None THEN Reject(401, "Access denied. Authentication required.", req)
  ELSE IF req.user[1].role # "admin"
  THEN Reject(403, "Access denied. Admin privileges required.", req)
  ELSE CallNext(req)

\* AuthMiddleware.requireManager
requireManager(req) ==
  IF req.user = None THEN Reject(401, "Access denied. Authentication required.", req)
  ELSE IF req.user[1].role \notin {"admin", "manager"}
  THEN Reject(403, "Access denied. Manager or admin privileges required.", req)
  ELSE CallNext(req)

\* the inline middleware of GET /api/applications: only looks for the header
requireHeader(req) ==
  IF ~req.token.present THEN Reject(401, "Access denied. No token provided.", req)
  ELSE CallNext(req)

Middleware(name, req) ==
  CASE name = "verifyToken" -> verifyToken(req)
    [] name = "requireAdmin" -> requireAdmin(req)
    [] name = "requireManager" -> requireManager(req)
    [] name = "requireHeader" -> requireHeader(req)

\* express runs the middlewares of a route in order until one responds
RECURSIVE runChain(_, _)
runChain(chain, req) ==
  IF chain = <<>> THEN CallNext(req)
  ELSE LET m == Middleware(Head(chain), req)
       IN IF m.status # 0 THEN m ELSE runChain(Tail(chain), m.req)

\* routes/applications.js, mounted at /api/applications: the chain of each route
ApplicationRoutes ==
  [getAllApplications |-> <<"requireHeader", "requireManager">>,
   getApplicationsByStatus |-> <<"requireManager">>,
   getRecentApplications |-> <<"requireManager">>,
   getApplicationStatistics |-> <<"requireManager">>,
   searchApplications |-> <<"requireManager">>,
   getApplicationById |-> <<"requireManager">>,
   updateApplicationStatus |-> <<"requireManager">>,
   deleteApplication |-> <<"requireAdmin">>]

\* the routes of the interview candidates: verifyToken, then the handler
CandidateRoutes == <<"verifyToken">>

\* CareerApplicationController: what the handler of an application route
\* stores and answers. The fields of an application are not part of the
\* state, so the handlers other than deleteApplication store nothing here.
applicationHandler(route, apps, a) ==
  CASE route = "deleteApplication" ->
         IF a \in apps
         THEN [apps |-> apps \ {a}, status |-> 200, message |-> "Application deleted successfully"]
         ELSE [apps |-> apps, status |-> 404,
               message |-> "Failed to delete application: Application not found"]
    [] route = "getApplicationById" ->
         IF a \in apps
         THEN [apps |-> apps, status |-> 200, message |-> ""]
         ELSE [apps |-> apps, status |-> 404,
               message |-> "Failed to get application: Application not found"]
    [] route = "updateApplicationStatus" ->
         IF a \in apps
         THEN [apps |-> apps, status |-> 200, message |-> "Application status updated successfully"]
         ELSE [apps |-> apps, status |-> 400,
               message |-> "Failed to update application status: Application not found"]
    [] OTHER -> [apps |-> apps, status |-> 200, message |-> ""]

\* a request to one of the application routes
HttpApplication(route, token, a) ==
  LET m == runChain(ApplicationRoutes[route], Request(token))
      h == applicationHandler(route, applications, a)
  IN /\ IF m.status # 0
        THEN /\ response' = Response(route, m.status, m.message, FALSE)
             /\ applications' = applications
        ELSE /\ response' = Response(route, h.status, h.message, TRUE)
             /\ applications' = h.apps
     /\ UNCHANGED <<nextApp, candidates, calls, now, last, mail, jobs, writers>>

\* obj[name] of JavaScript: undefined for a property the object does not have
Property(obj, name) == IF name \in DOMAIN obj THEN obj[name] ELSE Undef

\* InterviewCandidateController: const userId = req.user.id
controllerUserId(req) == Property(req.user[1], "id")

\* error.message.includes('not found') ? 404 : 400
includesNotFound(message) ==
  message \in {"Candidate not found", "Interview candidate not found",
               "Interview not found", "Career application not found"}

\* the request as the handler of a candidate route sees it
Verified(token) == runChain(CandidateRoutes, Request(token))

\* a handler of InterviewCandidateController behind its route: r is the result
\* of the service call it makes, which becomes the response
HttpCandidate(route, token, r, okStatus, notFoundStatus) ==
  LET m == Verified(token)
  IN /\ IF m.status # 0
        THEN /\ response' = Response(route, m.status, m.message, FALSE)
             /\ candidates' = candidates
             /\ last' = last
        ELSE /\ response' =
                  Response(route,
                           IF r.last.err = NoError THEN okStatus
                           ELSE IF includesNotFound(r.last.err) THEN notFoundStatus ELSE 400,
                           r.last.err, TRUE)
             /\ candidates' = r.cands
             /\ last' = r.last
     /\ UNCHANGED <<applications, nextApp, calls, now, mail, jobs, writers>>

HttpCreateFromApplication(token, a) ==
  HttpCandidate("createFromApplication", token,
                createFromApplication(applications, candidates, a,
                                      controllerUserId(Verified(token).req)),
                201, 400)

HttpScheduleInterview(token, c, d) ==
  HttpCandidate("scheduleInterview", token,
                scheduleInterview(candidates, c, d, controllerUserId(Verified(token).req), now),
                200, 404)

HttpUpdateStage(token, c, stage) ==
  HttpCandidate("updateStage", token,
                updateStage(candidates, c, stage, controllerUserId(Verified(token).req)),
                200, 400)

HttpMakeDecision(token, c, decision, notes) ==
  HttpCandidate("makeDecision", token,
                makeDecision(candidates, c, decision, notes,
                             controllerUserId(Verified(token).req), now),
                200, 400)

HttpAddCommunication(token, c, d) ==
  HttpCandidate("addCommunication", token,
                addCommunication(candidates, c, d, controllerUserId(Verified(token).req), now),
                200, 400)

HttpUpdateOverallRating(token, c, rating) ==
  HttpCandidate("updateOverallRating", token,
                updateOverallRating(candidates, c, rating, controllerUserId(Verified(token).req)),
                200, 400)

HttpCreateOffer(token, c, o) ==
  HttpCandidate("createOffer", token,
                createOffer(candidates, c, o, controllerUserId(Verified(token).req), now),
                200, 404)

HttpUpdateOfferStatus(token, c, status) ==
  HttpCandidate("updateOfferStatus", token,
                updateOfferStatus(candidates, c, status,
                                  controllerUserId(Verified(token).req), now),
                200, 400)

\* requests and service calls one after the other; the requests carry one
\* well-formed body per route
NextHttp ==
  \/ CreateApplication
  \/ \E p \in Procs : AutoCreateFromApplication(p)
  \/ \E a \in AppIds, u \in Users : CreateFromApplication(a, u)
  \/ \E route \in DOMAIN ApplicationRoutes, token \in TokenInputs, a \in AppIds :
       HttpApplication(route, token, a)
  \/ \E token \in TokenInputs, a \in AppIds : HttpCreateFromApplication(token, a)
  \/ \E token \in TokenInputs, c \in CandIdInputs :
       HttpScheduleInterview(token, c, InterviewData("screening", Some(now + 1), Some(<<"u1">>)))
         /\ WithinBounds(candidates')
  \/ \E token \in TokenInputs, c \in CandIdInputs, st \in {"phone-interview", "offer"} :
       HttpUpdateStage(token, c, st) /\ WithinBounds(candidates')
  \/ \E token \in TokenInputs, c \in CandIdInputs :
       HttpMakeDecision(token, c, "approved", Undef) /\ WithinBounds(candidates')
  \/ \E token \in TokenInputs, c \in CandIdInputs :
       HttpAddCommunication(token, c, CommunicationData("email", "subject", "content"))
         /\ WithinBounds(candidates')
  \/ \E token \in TokenInputs, c \in CandIdInputs :
       HttpUpdateOverallRating(token, c, Some(4)) /\ WithinBounds(candidates')
  \/ \E token \in TokenInputs, c \in CandIdInputs :
       HttpCreateOffer(token, c, OfferData(Some(80000), Some(now + 1)))
         /\ WithinBounds(candidates')
  \/ \E token \in TokenInputs, c \in CandIdInputs :
       HttpUpdateOfferStatus(token, c, "accepted") /\ WithinBounds(candidates')

SpecHttp == Init /\ [][NextHttp]_vars

\* =================================================================== claims
IsPrefix(s, t) == Len(s) <= Len(t) /\ SubSeq(t, 1, Len(s)) = s
Exists(c) == c \in DOMAIN candidates

\* ------------------------------------------------------------------ C1
\* C1: in every reachable state, no two InterviewCandidate documents refer to
\* the same CareerApplication, whatever the interleaving of the
\* createFromApplication calls (each call looks the candidate up and creates
\* it in separate steps).
C1_AtMostOneCandidatePerApplication ==
  \A i, j \in DOMAIN candidates :
    candidates[i].careerApplication = candidates[j].careerApplication => i = j

\* ------------------------------------------------------------------ C2
\* C2: when createFromApplication has just returned a candidate for an
\* application, a second call for the same, still existing application returns
\* the same candidate and leaves the collection (its size and every record) as
\* the first call left it.
C2_SecondCall(a) ==
  \/ \E u \in ActorInputs : CreateFromApplication(a, u)
  \/ \E p \in Procs : calls[p].app = a /\ AutoCreateFromApplication(p)
C2_CreateFromApplicationIdempotent ==
  [][\A a \in AppIds :
       ( /\ last.op = "createFromApplication" /\ last.target = a /\ last.err = NoError
         /\ a \in applications
         /\ C2_SecondCall(a) )
       => ( /\ last'.err = NoError
            /\ last'.ret = last.ret
            /\ candidates' = candidates )]_vars
C2_Witness ==
  /\ last.op = "createFromApplication"
  /\ last.err = NoError
  /\ last.log = "Interview candidate already exists"
  /\ last.ret \in DOMAIN candidates
  /\ Len(candidates) = 1

\* ------------------------------------------------------------------ C3
OfferValidationMessages ==
  {"salary is required", "startDate is required", "Salary must be greater than 0",
   "Start date must be in the future"}
C3_PayloadValid(o, t) ==
  /\ o.salary # None /\ o.salary[1] > 0
  /\ o.startDate # None /\ o.startDate[1] > t
C3_NotFinal(c) == Exists(c) /\ candidates[c].currentStage # "final-interview"
\* C3 as claimed: createOffer on an existing candidate that is not in
\* 'final-interview' fails with the precondition error for every payload, valid
\* or not, and leaves the candidate unchanged.
C3_Original ==
  [][\A c \in CandIdInputs, u \in PassedActors, o \in OfferInputs(now) :
       (C3_NotFinal(c) /\ last'.op = "createOffer" /\ CreateOffer(c, o, u))
       => (last'.err = NotFinalInterview /\ candidates' = candidates)]_vars
\* C3 as amended: createOffer on an existing candidate that is not in
\* 'final-interview' always fails and leaves the candidate unchanged; the error
\* is the precondition error when the payload is valid and the validation
\* error of the payload when it is not (the payload is validated first).
C3_CreateOfferOutsideFinalInterview ==
  [][\A c \in CandIdInputs, u \in PassedActors, o \in OfferInputs(now) :
       (C3_NotFinal(c) /\ last'.op = "createOffer" /\ CreateOffer(c, o, u))
       => ( /\ candidates' = candidates
            /\ last'.op = "createOffer"
            /\ IF C3_PayloadValid(o, now)
               THEN last'.err = NotFinalInterview
               ELSE last'.err \in OfferValidationMessages )]_vars
C3_Witness ==
  /\ last.op = "createOffer"
  /\ last.err = NotFinalInterview
  /\ \E c \in DOMAIN candidates : candidates[c].currentStage = "offer"

\* ------------------------------------------------------------------ C4
\* C4: on an existing candidate, updateOfferStatus(id, 'accepted') completes
\* with currentStage 'hired', decision.status 'approved' and offer.status
\* 'accepted', and updateOfferStatus(id, 'declined') with 'rejected', 'rejected'
\* and 'declined'; decision.madeBy and decision.madeAt are set by the same write.
C4_Coupled(c, u, status, stage, decision) ==
  (Exists(c) /\ UpdateOfferStatus(c, status, u))
  => ( /\ last'.err = NoError
       /\ candidates'[c].currentStage = stage
       /\ candidates'[c].decision.status = decision
       /\ candidates'[c].offer.status = status
       /\ candidates'[c].decision.madeBy = u
       /\ candidates'[c].decision.madeAt = Some(now) )
C4_OfferStatusCouplesStageAndDecision ==
  [][\A c \in CandIdInputs, u \in PassedActors :
       /\ C4_Coupled(c, u, "accepted", "hired", "approved")
       /\ C4_Coupled(c, u, "declined", "rejected", "rejected")]_vars

\* ------------------------------------------------------------------ C5
\* C5: from an existing application, createFromApplication, then
\* scheduleInterview('screening', future, one interviewer), then
\* updateInterviewFeedback(0, feedback, 4), then updateStage('final-interview'),
\* then createOffer(80000, future start), then updateOfferStatus('accepted')
\* all succeed; interviews[0].status is 'completed' after the feedback,
\* currentStage is 'offer' after createOffer and 'hired' at the end.
C5_Interview == InterviewData("screening", Some(now + 1), Some(<<"u1">>))
C5_Offer == OfferData(Some(80000), Some(now + 1))
C5_Scheduled(c) ==
  /\ Exists(c)
  /\ Len(candidates[c].interviews) = 1
  /\ candidates[c].interviews[1].status = "scheduled"
  /\ candidates[c].currentStage = "screening"
C5_Completed(c) ==
  /\ Exists(c)
  /\ Len(candidates[c].interviews) = 1
  /\ candidates[c].interviews[1].status = "completed"
C5_Scenario ==
  [][\A a \in AppIds, c \in CandIdInputs, u \in Users :
       /\ (a \in applications /\ CreateFromApplication(a, u))
          => (last'.err = NoError /\ last'.ret \in DOMAIN candidates'
              /\ candidates'[last'.ret].currentStage = "screening")
       /\ (Exists(c) /\ candidates[c].interviews = <<>>
           /\ candidates[c].currentStage = "screening"
           /\ ScheduleInterview(c, C5_Interview, u))
          => (last'.err = NoError /\ Len(candidates'[c].interviews) = 1)
       /\ (C5_Scheduled(c) /\ UpdateInterviewFeedback(c, 0, "Good fit", Some(4), u))
          => (last'.err = NoError /\ candidates'[c].interviews[1].status = "completed")
       /\ (C5_Completed(c) /\ UpdateStage(c, "final-interview", u))
          => (last'.err = NoError /\ candidates'[c].currentStage = "final-interview")
       /\ (C5_Completed(c) /\ candidates[c].currentStage = "final-interview"
           /\ CreateOffer(c, C5_Offer, u))
          => (last'.err = NoError /\ candidates'[c].currentStage = "offer")
       /\ (C5_Completed(c) /\ candidates[c].currentStage = "offer"
           /\ UpdateOfferStatus(c, "accepted", u))
          => (last'.err = NoError /\ candidates'[c].currentStage = "hired")]_vars

\* ------------------------------------------------------------------ C6
C6_FutureWithInterviewer(d, t) ==
  /\ d.scheduledAt # None /\ d.scheduledAt[1] > t
  /\ d.interviewers # None /\ Len(d.interviewers[1]) >= 1
C6_OneMoreInterviewAndEntry(c) ==
  /\ last'.err = NoError
  /\ Len(candidates'[c].interviews) = Len(candidates[c].interviews) + 1
  /\ IsPrefix(candidates[c].interviews, candidates'[c].interviews)
  /\ candidates'[c].interviews[Len(candidates'[c].interviews)].status = "scheduled"
  /\ Len(candidates'[c].timeline) = Len(candidates[c].timeline) + 1
  /\ IsPrefix(candidates[c].timeline, candidates'[c].timeline)
\* C6 as claimed: scheduleInterview on an existing candidate with scheduledAt
\* strictly in the future and at least one interviewer always succeeds, with
\* one more interview (the new one last, 'scheduled') and one more timeline entry.
C6_Original ==
  [][\A c \in CandIdInputs, u \in PassedActors, d \in InterviewInputs(now) :
       (Exists(c) /\ C6_FutureWithInterviewer(d, now)
        /\ last'.op = "scheduleInterview" /\ ScheduleInterview(c, d, u))
       => C6_OneMoreInterviewAndEntry(c)]_vars
\* C6 as amended: scheduleInterview on an existing candidate with a stage that
\* is one of the four interview stages, scheduledAt strictly in the future and
\* at least one interviewer always succeeds, with one more interview (the new
\* one last, 'scheduled') and one more timeline entry.
C6_ScheduleInterviewAppendsOnce ==
  [][\A c \in CandIdInputs, u \in PassedActors, d \in InterviewInputs(now) :
       (Exists(c) /\ d.stage \in InterviewStages /\ C6_FutureWithInterviewer(d, now)
        /\ last'.op = "scheduleInterview" /\ ScheduleInterview(c, d, u))
       => C6_OneMoreInterviewAndEntry(c)]_vars
C6_Witness ==
  /\ last.op = "scheduleInterview"
  /\ last.err = NoError
  /\ \E c \in DOMAIN candidates :
       /\ Len(candidates[c].interviews) = 1
       /\ candidates[c].interviews[1].status = "scheduled"
       /\ Len(candidates[c].timeline) = 3

\* ------------------------------------------------------------------ C7
InterviewValidationMessages ==
  {"stage is required", "scheduledAt is required", "interviewers is required",
   "Interview must be scheduled in the future", "At least one interviewer is required"}
C7_Invalid(d, t) ==
  \/ d.stage = Undef
  \/ d.scheduledAt = None
  \/ d.interviewers = None
  \/ d.scheduledAt[1] <= t
  \/ d.interviewers[1] = <<>>
\* C7: scheduleInterview fails with a validation error and leaves every
\* candidate as it was whenever stage, scheduledAt or interviewers is missing,
\* scheduledAt is not strictly in the future, or interviewers is empty.
C7_InvalidInterviewRejected ==
  [][\A c \in CandIdInputs, u \in PassedActors, d \in InterviewInputs(now) :
       (C7_Invalid(d, now) /\ last'.op = "scheduleInterview" /\ ScheduleInterview(c, d, u))
       => ( /\ last'.err \in InterviewValidationMessages
            /\ candidates' = candidates )]_vars
C7_Witness ==
  /\ last.op = "scheduleInterview"
  /\ last.err = "Interview must be scheduled in the future"
  /\ candidates # <<>>

\* ------------------------------------------------------------------ C8
RatingValidationMessages ==
  {"Rating must be between 1 and 5"} \cup {SkillError[Skills[i]] : i \in DOMAIN Skills}
C8_InRange(r) == r[1] >= 1 /\ r[1] <= 5
C8_Rejected == last'.err \in RatingValidationMessages /\ candidates' = candidates
\* C8: on an existing candidate, updateOverallRating, updateSkillsAssessment
\* (each of the four skills) and updateInterviewFeedback accept a numeric
\* rating exactly when it lies in [1,5]: a value outside (0 and negative values
\* too) fails with a validation error and stores nothing, a value inside (1
\* and 5 too) succeeds and is stored.
C8_RatingsAcceptedExactlyInRange ==
  [][\A c \in CandIdInputs, u \in PassedActors :
       /\ \A r \in Ratings \ {None} :
            (Exists(c) /\ UpdateOverallRating(c, r, u))
            => IF C8_InRange(r)
               THEN last'.err = NoError /\ candidates'[c].overallRating = r
               ELSE C8_Rejected
       /\ \A sk \in SkillsInputs, i \in DOMAIN Skills :
            (Exists(c) /\ sk[Skills[i]] # None /\ UpdateSkillsAssessment(c, sk, u))
            => IF C8_InRange(sk[Skills[i]])
               THEN last'.err = NoError
                    /\ candidates'[c].skillsAssessment[Skills[i]] = sk[Skills[i]]
               ELSE C8_Rejected
       /\ \A f \in FeedbackCalls :
            (Exists(c) /\ (f[1] + 1) \in DOMAIN candidates[c].interviews
             /\ UpdateInterviewFeedback(c, f[1], f[2], f[3], u))
            => IF C8_InRange(f[3])
               THEN last'.err = NoError
                    /\ candidates'[c].interviews[f[1] + 1].rating = f[3]
               ELSE C8_Rejected]_vars

C10_OneMoreEntry(c) ==
  Len(candidates'[c].timeline) = Len(candidates[c].timeline) + 1
C10_Succeeds(c) == Exists(c) /\ last'.err = NoError /\ last'.ret = c
\* C10: each successful updateStage, makeDecision, createOffer,
\* updateOfferStatus, updateOverallRating or updateSkillsAssessment makes the
\* candidate's timeline exactly one entry longer, for updateStage both when
\* the new stage differs from the current one and when it is equal.
C10_OneTimelineEntryPerOperation ==
  [][\A c \in CandIdInputs :
       /\ \A u \in StoredActors, st \in StageInputs :
            (UpdateStage(c, st, u) /\ C10_Succeeds(c)) => C10_OneMoreEntry(c)
       /\ \A u \in StoredActors, d \in DecisionCalls :
            (MakeDecision(c, d[1], d[2], u) /\ C10_Succeeds(c)) => C10_OneMoreEntry(c)
       /\ \A u \in PassedActors, o \in OfferInputs(now) :
            (CreateOffer(c, o, u) /\ C10_Succeeds(c)) => C10_OneMoreEntry(c)
       /\ \A u \in PassedActors, st \in OfferStatusInputs :
            (UpdateOfferStatus(c, st, u) /\ C10_Succeeds(c)) => C10_OneMoreEntry(c)
       /\ \A u \in PassedActors, r \in Ratings :
            (UpdateOverallRating(c, r, u) /\ C10_Succeeds(c)) => C10_OneMoreEntry(c)
       /\ \A u \in PassedActors, sk \in SkillsInputs :
            (UpdateSkillsAssessment(c, sk, u) /\ C10_Succeeds(c)) => C10_OneMoreEntry(c)]_vars

\* ------------------------------------------------------------------ C11
CommunicationValidationMessages ==
  {"type is required", "subject is required", "content is required",
   "Invalid communication type"}
C11_Valid(d) ==
  /\ d.type \in {"email", "phone", "in-person", "video"}
  /\ d.subject \notin {Undef, ""}
  /\ d.content \notin {Undef, ""}
\* C11: addCommunication with a valid type, subject and content on an existing
\* candidate appends exactly one entry to communications and leaves the
\* timeline unchanged; with a missing type, subject or content, or a type
\* outside {email, phone, in-person, video}, it fails with a validation error
\* and changes nothing.
C11_AddCommunicationAppendsOnlyToCommunications ==
  [][\A c \in CandIdInputs, u \in StoredActors, d \in CommunicationInputs :
       (last'.op = "addCommunication" /\ AddCommunication(c, d, u))
       => IF C11_Valid(d)
          THEN Exists(c)
               => ( /\ last'.err = NoError
                    /\ Len(candidates'[c].communications)
                         = Len(candidates[c].communications) + 1
                    /\ IsPrefix(candidates[c].communications, candidates'[c].communications)
                    /\ candidates'[c].timeline = candidates[c].timeline )
          ELSE ( /\ last'.err \in CommunicationValidationMessages
                 /\ candidates' = candidates )]_vars
C11_Witness ==
  /\ last.op = "addCommunication"
  /\ last.err = NoError
  /\ \E c \in DOMAIN candidates :
       /\ Len(candidates[c].communications) = 1
       /\ candidates[c].communications[1].type = "email"
       /\ Len(candidates[c].timeline) = 2

\* ------------------------------------------------------------------ C12
\* C12: when createFromApplication creates a new candidate (the application
\* exists and has no candidate yet), the stored candidate has currentStage
\* 'screening' and a timeline of exactly one entry, the one that records the
\* creation.
C12_NewCandidateHasOneTimelineEntry ==
  [][\A a \in AppIds, u \in ActorInputs :
       (CreateFromApplication(a, u) /\ Len(candidates') = Len(candidates) + 1)
       => ( /\ candidates'[Len(candidates')].currentStage = "screening"
            /\ Len(candidates'[Len(candidates')].timeline) = 1
            /\ candidates'[Len(candidates')].timeline[1].action
                 = <<"Candidate created from application">> )]_vars

\* ------------------------------------------------------------------ C13
\* C13: createFromApplication with an application id that has no
\* CareerApplication, because none was created under it or because
\* deleteApplication removed it, fails with 'Career application not found' and
\* creates no candidate.
C13_UnknownApplicationIsNotFound ==
  [][\A a \in AppIds, u \in ActorInputs :
       (a \notin applications /\ CreateFromApplication(a, u))
       => ( /\ last'.err = "Career application not found"
            /\ candidates' = candidates )]_vars
\* the application of a stored candidate was deleted, and the call was made
C13_Witness ==
  /\ last.op = "createFromApplication"
  /\ last.err = "Career application not found"
  /\ applications = {}
  /\ nextApp = 1
  /\ \E c \in DOMAIN candidates : candidates[c].careerApplication = last.target

\* ------------------------------------------------------------------ C14
C14_HasInterview(c, i) == Exists(c) /\ (i + 1) \in DOMAIN candidates[c].interviews
\* C14: updateInterviewFeedback(candidateId, i, feedback, rating) with
\* 1 <= rating <= 5 on an existing interview i reports success to the caller,
\* and afterwards interviews[i] has the given feedback and rating and status
\* 'completed'.
C14_FeedbackCompletesInterview ==
  [][\A c \in CandIdInputs, u \in PassedActors, f \in FeedbackCalls :
       ( /\ C14_HasInterview(c, f[1])
         /\ f[2] # Undef /\ f[3][1] >= 1 /\ f[3][1] <= 5
         /\ last'.op = "updateInterviewFeedback"
         /\ UpdateInterviewFeedback(c, f[1], f[2], f[3], u) )
       => ( /\ last'.err = NoError
            /\ candidates'[c].interviews[f[1] + 1].feedback = f[2]
            /\ candidates'[c].interviews[f[1] + 1].rating = f[3]
            /\ candidates'[c].interviews[f[1] + 1].status = "completed" )]_vars

\* ------------------------------------------------------------------ C15
C15_NoInterview(c, i) == Exists(c) /\ (i + 1) \notin DOMAIN candidates[c].interviews
C15_RatingRejected(r) == r # None /\ r[1] # 0 /\ (r[1] < 1 \/ r[1] > 5)
\* C15 as claimed: updateInterviewFeedback with an index at which the candidate
\* has no interview (not below the number of interviews, or negative) fails
\* with 'Interview not found' and leaves the candidate unchanged.
C15_Original ==
  [][\A c \in CandIdInputs, u \in PassedActors, f \in FeedbackCalls :
       ( /\ C15_NoInterview(c, f[1])
         /\ last'.op = "updateInterviewFeedback"
         /\ UpdateInterviewFeedback(c, f[1], f[2], f[3], u) )
       => (last'.err = "Interview not found" /\ candidates' = candidates)]_vars
\* C15 as amended: updateInterviewFeedback with an index at which the candidate
\* has no interview always fails and leaves the candidate unchanged; the error
\* is 'Interview not found' unless the rating is non-zero and outside [1,5],
\* and then it is the rating's validation error (the rating is checked first).
C15_MissingInterviewIsNotFound ==
  [][\A c \in CandIdInputs, u \in PassedActors, f \in FeedbackCalls :
       ( /\ C15_NoInterview(c, f[1])
         /\ last'.op = "updateInterviewFeedback"
         /\ UpdateInterviewFeedback(c, f[1], f[2], f[3], u) )
       => ( /\ candidates' = candidates
            /\ last'.err = IF C15_RatingRejected(f[3])
                           THEN "Rating must be between 1 and 5"
                           ELSE "Interview not found" )]_vars
\* the candidate has one interview, and the call named another
C15_Witness ==
  /\ last.op = "updateInterviewFeedback"
  /\ last.err = "Interview not found"
  /\ \E c \in DOMAIN candidates : Len(candidates[c].interviews) = 1

\* ------------------------------------------------------------------ C16
C16_StageValues ==
  {"screening", "phone-interview", "technical-interview", "final-interview",
   "offer", "rejected", "hired"}
\* C16: updateStage rejects every newStage outside the seven stage values
\* without changing the candidate, and accepts every one of the seven from
\* every current stage, 'hired' and 'rejected' too: the call succeeds and
\* leaves currentStage at the new stage.
C16_AnyStageFromAnyStage ==
  [][\A c \in CandIdInputs, u \in StoredActors, st \in StageInputs :
       (last'.op = "updateStage" /\ UpdateStage(c, st, u))
       => IF st \in C16_StageValues
          THEN Exists(c)
               => ( /\ last'.err = NoError
                    /\ candidates'[c].currentStage = st
                    /\ candidates'[c].currentStage \in C16_StageValues )
          ELSE (last'.err = "Invalid stage" /\ candidates' = candidates)]_vars
\* a candidate that was moved to 'hired' and from there back to 'screening'
C16_Witness ==
  /\ last.op = "updateStage"
  /\ last.err = NoError
  /\ \E c \in DOMAIN candidates :
       /\ candidates[c].currentStage = "screening"
       /\ Len(candidates[c].timeline) = MaxStageTimeline
       /\ candidates[c].timeline[3].action = <<"Stage updated to", "hired">>
       /\ candidates[c].timeline[5].action = <<"Stage updated to", "screening">>

\* ------------------------------------------------------------------ C17
\* C17: createOffer on a candidate in stage 'final-interview' with salary > 0
\* and startDate strictly in the future succeeds, and afterwards offer.salary
\* and offer.startDate are the given values, offer.status is 'pending',
\* offer.validUntil is exactly 7 days after the time of the call, and
\* currentStage is 'offer'.
C17_CreateOfferStoresOffer ==
  [][\A c \in CandIdInputs, u \in PassedActors, o \in OfferInputs(now) :
       ( /\ Exists(c) /\ candidates[c].currentStage = "final-interview"
         /\ o.salary # None /\ o.salary[1] > 0
         /\ o.startDate # None /\ o.startDate[1] > now
         /\ last'.op = "createOffer"
         /\ CreateOffer(c, o, u) )
       => ( /\ last'.err = NoError
            /\ candidates'[c].offer.salary = o.salary
            /\ candidates'[c].offer.startDate = o.startDate
            /\ candidates'[c].offer.status = "pending"
            /\ candidates'[c].offer.validUntil = Some(now + 7)
            /\ candidates'[c].currentStage = "offer" )]_vars

\* ------------------------------------------------------------------ C18
C18_DecisionValues == {"pending", "approved", "rejected", "on-hold"}
\* C18: makeDecision rejects every decision outside {pending, approved,
\* rejected, on-hold} without changing the candidate; for a valid one it
\* replaces the whole decision sub-record: afterwards decision.status,
\* decision.madeBy and decision.notes are the values of this call (notes is
\* empty when none is given, never the notes of an earlier decision), and
\* currentStage is unchanged.
C18_DecisionReplacedWhole ==
  [][\A c \in CandIdInputs, u \in StoredActors, d \in DecisionCalls :
       (last'.op = "makeDecision" /\ MakeDecision(c, d[1], d[2], u))
       => IF d[1] \in C18_DecisionValues
          THEN Exists(c)
               => ( /\ last'.err = NoError
                    /\ candidates'[c].decision.status = d[1]
                    /\ candidates'[c].decision.madeBy = u
                    /\ candidates'[c].decision.notes = (IF d[2] = Undef THEN "" ELSE d[2])
                    /\ candidates'[c].currentStage = candidates[c].currentStage )
          ELSE (last'.err = "Invalid decision" /\ candidates' = candidates)]_vars
\* a decision without notes, made after a decision with notes
C18_Witness ==
  /\ last.op = "makeDecision"
  /\ last.err = NoError
  /\ \E c \in DOMAIN candidates :
       /\ Len(candidates[c].timeline) = 4
       /\ candidates[c].timeline[3].details = "n1"
       /\ candidates[c].timeline[4].action[1] = "Decision made:"
       /\ candidates[c].decision.notes = ""

\* ------------------------------------------------------------------ C19
LifecycleOperations ==
  {"scheduleInterview", "updateInterviewFeedback", "updateStage", "makeDecision",
   "addCommunication", "updateOverallRating", "updateSkillsAssessment", "createOffer",
   "updateOfferStatus"}
\* C19: no lifecycle operation is applied partially: whenever one of the nine
\* operations ends with an error, every stored candidate record is identical
\* to the record before the call.
C19_FailedOperationChangesNothing ==
  [][(last'.op \in LifecycleOperations /\ last'.err # NoError)
     => candidates' = candidates]_vars

\* ------------------------------------------------------------------ C20
NotFoundMessages == {"Interview candidate not found", "Candidate not found"}
C20_NotFound == last'.err \in NotFoundMessages /\ candidates' = candidates
C20_ValidInterview(d, t) ==
  /\ d.stage \in InterviewStages
  /\ d.scheduledAt # None /\ d.scheduledAt[1] > t
  /\ d.interviewers # None /\ Len(d.interviewers[1]) >= 1
C20_ValidSkills(sk) ==
  \A i \in DOMAIN Skills :
    sk[Skills[i]] = None \/ (sk[Skills[i]][1] >= 1 /\ sk[Skills[i]][1] <= 5)
\* C20: every lifecycle operation called with valid arguments and a candidate
\* id under which no candidate is stored ends with a not-found error, never
\* with a success result, and creates no candidate.
C20_UnknownCandidateIsNotFound ==
  [][\A c \in CandIdInputs \ DOMAIN candidates :
       /\ \A u \in PassedActors, d \in InterviewInputs(now) :
            (C20_ValidInterview(d, now) /\ ScheduleInterview(c, d, u)) => C20_NotFound
       /\ \A u \in PassedActors, f \in FeedbackCalls :
            (f[3][1] >= 1 /\ f[3][1] <= 5 /\ UpdateInterviewFeedback(c, f[1], f[2], f[3], u))
            => C20_NotFound
       /\ \A u \in StoredActors, st \in Stages :
            UpdateStage(c, st, u) => C20_NotFound
       /\ \A u \in StoredActors, d \in DecisionCalls :
            (d[1] \in DecisionStatuses /\ MakeDecision(c, d[1], d[2], u)) => C20_NotFound
       /\ \A u \in StoredActors, d \in CommunicationInputs :
            (C11_Valid(d) /\ AddCommunication(c, d, u)) => C20_NotFound
       /\ \A u \in PassedActors, r \in Ratings :
            (r # None /\ r[1] >= 1 /\ r[1] <= 5 /\ UpdateOverallRating(c, r, u))
            => C20_NotFound
       /\ \A u \in PassedActors, sk \in SkillsInputs :
            (C20_ValidSkills(sk) /\ UpdateSkillsAssessment(c, sk, u)) => C20_NotFound
       /\ \A u \in PassedActors, o \in OfferInputs(now) :
            (C3_PayloadValid(o, now) /\ CreateOffer(c, o, u)) => C20_NotFound
       /\ \A u \in PassedActors, st \in OfferStatuses :
            UpdateOfferStatus(c, st, u) => C20_NotFound]_vars

\* ------------------------------------------------------------------ C24
StageChangingOperations == {"updateStage", "createOffer", "updateOfferStatus"}
\* C24: currentStage changes only through updateStage, createOffer and
\* updateOfferStatus with 'accepted' or 'declined': scheduleInterview,
\* updateInterviewFeedback, makeDecision, addCommunication,
\* updateOverallRating, updateSkillsAssessment and updateOfferStatus with
\* 'pending' or 'expired' leave currentStage (and, the last, decision) as it was.
C24_OnlyStageOperationsChangeStage ==
  [][/\ \A c \in DOMAIN candidates :
          candidates'[c].currentStage # candidates[c].currentStage
          => last'.op \in StageChangingOperations
     /\ \A x \in CandIdInputs, u \in PassedActors, st \in {"pending", "expired"} :
          (last'.op = "updateOfferStatus" /\ UpdateOfferStatus(x, st, u))
          => \A c \in DOMAIN candidates :
               /\ candidates'[c].currentStage = candidates[c].currentStage
               /\ candidates'[c].decision = candidates[c].decision]_vars
\* an interview scheduled and a decision made, the candidate still in 'screening'
C24_Witness ==
  /\ last.op = "makeDecision"
  /\ last.err = NoError
  /\ \E c \in DOMAIN candidates :
       /\ candidates[c].decision.status = "approved"
       /\ Len(candidates[c].interviews) = 1
       /\ candidates[c].currentStage = "screening"

\* ------------------------------------------------------------------ C28
\* C28: a candidate is never deleted: over every step the stored candidates
\* stay stored, each for the application it was created for; deleteApplication
\* removes the application and leaves its candidate, so a candidate whose
\* careerApplication names no stored application is a reachable state.
C28_CandidatesAreNeverDeleted ==
  [][\A c \in DOMAIN candidates :
       /\ c \in DOMAIN candidates'
       /\ candidates'[c].careerApplication = candidates[c].careerApplication]_vars
C28_Witness ==
  /\ last.op = "deleteApplication"
  /\ last.err = NoError
  /\ \E c \in DOMAIN candidates : candidates[c].careerApplication \notin applications

\* ------------------------------------------------------------------ C30
\* C30: in every reachable state a candidate whose currentStage is 'offer' has
\* an offer record with a salary, and a candidate has an offer salary only if
\* createOffer succeeded for it (its timeline has the entry 'Offer created').
C30_OfferStageHasOffer ==
  \A c \in DOMAIN candidates :
    /\ candidates[c].currentStage = "offer" => candidates[c].offer.salary # None
    /\ candidates[c].offer.salary # None
       => \E i \in DOMAIN candidates[c].timeline :
            candidates[c].timeline[i].action = <<"Offer created">>

\* C23: role gating of the application routes. The deleteApplication handler
\* runs exactly for a token that verifies and carries role 'admin', the manager
\* routes run exactly for a verified token of role 'admin' or 'manager'; a
\* request without a token or with an invalid token is answered 401, and a
\* verified token of another role 403.
AllowedRoles(route) ==
  IF route = "deleteApplication" THEN {"admin"} ELSE {"admin", "manager"}
C23_ApplicationRoutesAreRoleGated ==
  [][\A route \in DOMAIN ApplicationRoutes, token \in TokenInputs, a \in AppIds :
       HttpApplication(route, token, a) =>
         LET verified == token.present /\ token.verifies
             allowed == verified /\ token.payload.role \in AllowedRoles(route)
         IN /\ response'.handled <=> allowed
            /\ ~verified => response'.status = 401
            /\ (verified /\ ~allowed) => response'.status = 403]_vars

\* C25: every timeline entry appended by a request to a candidate route has
\* the user id of the request's verified token in performedBy, and every
\* communication appended has it in initiatedBy.
AppendedBy(old, new, userId) ==
  \A c \in DOMAIN new :
    LET before == IF c \in DOMAIN old THEN old[c]
                  ELSE [timeline |-> <<>>, communications |-> <<>>]
    IN /\ \A i \in DOMAIN new[c].timeline :
            i > Len(before.timeline) => new[c].timeline[i].performedBy = userId
       /\ \A i \in DOMAIN new[c].communications :
            i > Len(before.communications) => new[c].communications[i].initiatedBy = userId
C25_PerformedByIsTheAuthenticatedUser ==
  [][\A token \in TokenInputs :
       (/\ response'.handled
        /\ \/ \E a \in AppIds : HttpCreateFromApplication(token, a)
           \/ \E c \in CandIdInputs, d \in InterviewInputs(now) : HttpScheduleInterview(token, c, d)
           \/ \E c \in CandIdInputs, st \in Stages : HttpUpdateStage(token, c, st)
           \/ \E c \in CandIdInputs, d \in DecisionCalls : HttpMakeDecision(token, c, d[1], d[2])
           \/ \E c \in CandIdInputs, d \in CommunicationInputs : HttpAddCommunication(token, c, d)
           \/ \E c \in CandIdInputs, r \in Ratings : HttpUpdateOverallRating(token, c, r)
           \/ \E c \in CandIdInputs, o \in OfferInputs(now) : HttpCreateOffer(token, c, o)
           \/ \E c \in CandIdInputs, st \in OfferStatuses : HttpUpdateOfferStatus(token, c, st))
       => AppendedBy(candidates, candidates', token.payload.userId)]_vars

\* C29: after createApplication has stored an application, the automatic
\* createFromApplication(id, 'system') eventually succeeds: as long as the
\* application is not deleted, a candidate at stage 'screening' comes to exist
\* for it, without any explicit call.
HasScreeningCandidate(a) ==
  \E c \in DOMAIN candidates :
    candidates[c].careerApplication = a /\ candidates[c].currentStage = "screening"
C29_AutomaticCandidateEventuallyExists ==
  \A a \in AppIds :
    (a \in applications) ~> (a \notin applications \/ HasScreeningCandidate(a))

\* C22: createApplication returns the stored application without waiting for
\* the two emails or for the automatic createFromApplication (they are still
\* in flight when it returns), and no later step of any of the three, failed
\* or not, removes or changes the stored application.
C22_CreateApplicationIsFireAndForget ==
  [][/\ CreateApplication =>
          /\ last'.err = NoError
          /\ last'.ret \in applications'
          /\ \E p \in Procs : calls'[p] = [pc |-> "findApplication", app |-> last'.ret,
                                            userId |-> "system"]
          /\ mail'.transporter # Null =>
               {Email(last'.ret, "confirmation"), Email(last'.ret, "hr")} \subseteq mail'.pending
     /\ (\/ \E a \in AppIds, kind \in {"confirmation", "hr"}, ok \in BOOLEAN : SendMail(a, kind, ok)
         \/ \E p \in Procs : CFA_FindApplication(p)
         \/ \E p \in Procs : CFA_FindByCareerApplication(p)
         \/ \E p \in Procs : CFA_Create(p))
        => applications' = applications]_vars
\* the application is stored after both emails and the automatic call failed
C22_Witness ==
  \E a \in applications :
    /\ {Email(a, "confirmation"), Email(a, "hr")} \subseteq mail.failed
    /\ last.op = "createFromApplication" /\ last.err # NoError
    /\ \A p \in Procs : calls[p].pc = "idle"
    /\ \A c \in DOMAIN candidates : candidates[c].careerApplication # a

\* C26: findWithUpcomingInterviews returns exactly the candidates with at
\* least one interview that both lies between now and now + 7 days and has
\* status 'scheduled', and it changes no record.
HasUpcomingInterview(doc, t) ==
  \E i \in DOMAIN doc.interviews :
    /\ doc.interviews[i].scheduledAt[1] >= t
    /\ doc.interviews[i].scheduledAt[1] <= t + UpcomingDays
    /\ doc.interviews[i].status = "scheduled"
C26_UpcomingInterviewsExactly ==
  [][FindWithUpcomingInterviews =>
       /\ last'.ret = {c \in DOMAIN candidates : HasUpcomingInterview(candidates[c], now)}
       /\ candidates' = candidates]_vars

\* C27: a job is mutated only by its owner. updateJob, deleteJob, publishJob,
\* closeJob and updateJobStatus called by a user other than the job's postedBy
\* fail with an 'Unauthorized' error and leave the job unchanged; called by the
\* postedBy user with valid input they succeed: publishJob leaves status
\* 'published', closeJob 'closed', updateJobStatus the given status, deleteJob
\* removes the job and updateJob stores the new fields.
UnauthorizedErrors ==
  {"Unauthorized to update this job", "Unauthorized to delete this job",
   "Unauthorized to publish this job", "Unauthorized to close this job",
   "Unauthorized to update job status"}
ValidJobUpdates == {d \in JobUpdateInputs : validateJobUpdateData(d) = NoError}
JobMutation(j, u) ==
  \/ \E d \in ValidJobUpdates : UpdateJob(j, d, u)
  \/ DeleteJob(j, u)
  \/ PublishJob(j, u)
  \/ CloseJob(j, u)
  \/ \E st \in JobStatuses : UpdateJobStatus(j, st, u)
C27_JobMutatedOnlyByItsOwner ==
  [][\A j \in JobIds, u \in JobUsers :
       (j \in DOMAIN jobs /\ jobs[j] # None) =>
         IF jobs[j][1].postedBy # u
         THEN JobMutation(j, u) => (last'.err \in UnauthorizedErrors /\ jobs' = jobs)
         ELSE /\ JobMutation(j, u) => last'.err = NoError
              /\ PublishJob(j, u) => jobs'[j][1].status = "published"
              /\ CloseJob(j, u) => jobs'[j][1].status = "closed"
              /\ DeleteJob(j, u) => jobs'[j] = None
              /\ \A st \in JobStatuses :
                   UpdateJobStatus(j, st, u) => jobs'[j][1].status = st
              /\ \A d \in ValidJobUpdates :
                   UpdateJob(j, d, u) =>
                     /\ d.title # Undef => jobs'[j][1].title = d.title
                     /\ d.salary # None => jobs'[j][1].salary = d.salary[1]]_vars

====
